---- MODULE Spec2Model ----
(***************************************************************************)
(* undici-retry: the attempt loop of sendWithRetry /                       *)
(* sendWithRetryReturnStream (lib/undiciRetry.ts) and the default delay    *)
(* resolver it falls back to (lib/defaultRetryResolver.ts).                *)
(*                                                                         *)
(* One behaviour of Spec is one call.  Every await of the loop is a step   *)
(* boundary: the transport request, the body materialisation, the body     *)
(* dump and the inter-attempt sleep each complete in an action of their    *)
(* own.  Optional JavaScript values (T | undefined) are encoded as         *)
(* sequences of length at most one: <<>> is undefined, <<v>> is v.         *)
(***************************************************************************)
EXTENDS Integers, Sequences, FiniteSets, TLC

\* Largest maxAttempts a call is started with.
MaxAttemptsBound == 3

None == <<>>
Some(v) == <<v>>
IsSome(o) == o # <<>>
Get(o) == o[1]

\* a ?? b
Nullish(o, d) == IF o = None THEN d ELSE Get(o)

-----------------------------------------------------------------------------
(* Constants of the program *)

\* Mutant: only server errors are retried by default.
DEFAULT_RETRYABLE_STATUS_CODES_SERVER_ERRORS == {500, 502, 503, 504}

DEFAULT_RETRYABLE_STATUS_CODES == {408, 425, 429, 500, 502, 503, 504}

TIMEOUT_ERRORS == {"BodyTimeoutError", "HeadersTimeoutError"}

DEFAULT_BASE_DELAY == 100
DEFAULT_MAX_DELAY == 60000
DEFAULT_MAX_JITTER == 100

\* The status the engine treats as the first non-success one (statusCode < 400).
FIRST_ERROR_STATUS == 400

\* The resolver value the engine reads as "do not retry".
ABORT == -1

-----------------------------------------------------------------------------
(* Inputs: what the transport and the caller can supply *)

\* Status codes the transport answers with.
Statuses == {200, 400, 429, 500}

\* Retry-After header values, as character sequences.
RetryAfterValues ==
    {<<"5">>, <<"3", "0">>, <<"1", "2", "0">>, <<"s", "o", "o", "n">>,
     <<"GMT:", "4", "0">>}

\* Readings of Date.now(), in milliseconds.
Clocks == {35500}

\* content-type header and whether the body text parses as JSON.
BodyShapes ==
    { [contentType |-> Some("text/plain"), parses |-> FALSE],
      [contentType |-> Some("application/json"), parses |-> TRUE],
      [contentType |-> Some("application/json"), parses |-> FALSE],
      [contentType |-> None, parses |-> FALSE] }

\* The Retry-After headers a response of the given status can carry: the header
\* goes with 429 ("per HTTP spec these are the ones that can have this header").
RetryAfterOf(statusCode) ==
    IF statusCode = 429 THEN {None} \cup {Some(v) : v \in RetryAfterValues} ELSE {None}

\* Dispatcher.ResponseData for the n-th request: the body text is tagged with n
\* ("A mocked response n"), bodyReads counts the operations that consumed the body.
Responses(n) ==
    UNION { { [statusCode |-> s,
               headers |-> [contentType |-> b.contentType, retryAfter |-> ra],
               body |-> [id |-> n, parses |-> b.parses],
               bodyReads |-> 0] : b \in BodyShapes, ra \in RetryAfterOf(s) } :
            s \in Statuses }

\* The name of the error client.request rejects with when request.signal is
\* aborted.
ABORT_ERROR == "AbortError"

\* Errors client.request rejects with.
TransportErrorNames == {"HeadersTimeoutError", "SocketError"}

\* How reading a body stream can end: completely, or with the body timeout.
BodyFaults == {"none", "BodyTimeoutError"}

\* What a caller-supplied delayResolver can do: return undefined, -1, 0, a
\* positive or another negative number, or throw.
CustomResolverReturns == {None, Some(ABORT), Some(0), Some(100), Some(-5)}

StatusCodeSets == {None, Some({}), Some({400, 429})}

Labels == {None, Some("label")}

-----------------------------------------------------------------------------
(* lib/defaultRetryResolver.ts *)

DigitChars == <<"0", "1", "2", "3", "4", "5", "6", "7", "8", "9">>

IsDigit(c) == \E i \in 1..10 : DigitChars[i] = c

DigitValue(c) == (CHOOSE i \in 1..10 : DigitChars[i] = c) - 1

\* /^\d+$/
DIGITS_ONLY_REGEX(str) == Len(str) > 0 /\ \A i \in 1..Len(str) : IsDigit(str[i])

\* Number.parseInt(str, 10) of an all-digits string.
RECURSIVE ParseInt(_)
ParseInt(str) ==
    IF Len(str) = 0 THEN 0
    ELSE 10 * ParseInt(SubSeq(str, 1, Len(str) - 1)) + DigitValue(str[Len(str)])

\* new Date(str).getTime(): an HTTP-date is written <<"GMT:", d1, .., dk>>, the
\* digits giving its instant in whole seconds; anything else is NaN (None).
DateGetTime(str) ==
    IF Len(str) >= 2 /\ str[1] = "GMT:" /\ DIGITS_ONLY_REGEX(Tail(str))
    THEN Some(ParseInt(Tail(str)) * 1000)
    ELSE None

\* Either<string, number>
Left(e) == [error |-> Some(e), result |-> None]
Right(r) == [error |-> None, result |-> Some(r)]

\* Mutant: delta-seconds are counted from the epoch, like a date.
parseRetryAfterHeaderFromEpoch(retryAfter, now) ==
    IF Len(retryAfter) = 0 THEN Left("No Retry-After header provided")
    ELSE LET date == IF DIGITS_ONLY_REGEX(retryAfter)
                     THEN Some(ParseInt(retryAfter) * 1000)
                     ELSE DateGetTime(retryAfter)
         IN  IF IsSome(date)
             THEN LET delay == Get(date) - now
                  IN  IF delay < 0 THEN Left("Retry-After date is in the past")
                      ELSE Right(delay)
             ELSE Left("Unknown Retry-After format")

\* Mutant: delta-seconds are returned as they are, not as milliseconds.
parseRetryAfterHeaderSeconds(retryAfter, now) ==
    IF Len(retryAfter) = 0 THEN Left("No Retry-After header provided")
    ELSE IF DIGITS_ONLY_REGEX(retryAfter)
    THEN Right(ParseInt(retryAfter))
    ELSE LET date == DateGetTime(retryAfter)
         IN  IF IsSome(date)
             THEN LET delay == Get(date) - now
                  IN  IF delay < 0 THEN Left("Retry-After date is in the past")
                      ELSE Right(delay)
             ELSE Left("Unknown Retry-After format")

\* Mutant: a date that has passed gives its (negative) distance.
parseRetryAfterHeaderSigned(retryAfter, now) ==
    IF Len(retryAfter) = 0 THEN Left("No Retry-After header provided")
    ELSE IF DIGITS_ONLY_REGEX(retryAfter)
    THEN Right(ParseInt(retryAfter) * 1000)
    ELSE LET date == DateGetTime(retryAfter)
         IN  IF IsSome(date)
             THEN Right(Get(date) - now)
             ELSE Left("Unknown Retry-After format")

parseRetryAfterHeader(retryAfter, now) ==
    IF Len(retryAfter) = 0 THEN Left("No Retry-After header provided")
    ELSE IF DIGITS_ONLY_REGEX(retryAfter)
    THEN LET seconds == ParseInt(retryAfter)
         IN  IF seconds < 0 THEN Left("Invalid Retry-After seconds value")
             ELSE Right(seconds * 1000)
    ELSE LET date == DateGetTime(retryAfter)
         IN  IF IsSome(date)
             THEN LET delay == Get(date) - now
                  IN  IF delay < 0 THEN Left("Retry-After date is in the past")
                      ELSE Right(delay)
             ELSE Left("Unknown Retry-After format")

\* new DefaultRetryResolver(options): each option falls back to its default.
DefaultRetryResolverOptions(options) ==
    [baseDelay |-> Nullish(options.baseDelay, DEFAULT_BASE_DELAY),
     maxDelay |-> Nullish(options.maxDelay, DEFAULT_MAX_DELAY),
     maxJitter |-> Nullish(options.maxJitter, DEFAULT_MAX_JITTER),
     exponentialBackoff |-> Nullish(options.exponentialBackoff, TRUE),
     respectRetryAfter |-> Nullish(options.respectRetryAfter, TRUE)]

NoOptions ==
    [baseDelay |-> None, maxDelay |-> None, maxJitter |-> None,
     exponentialBackoff |-> None, respectRetryAfter |-> None]

\* Mutant: every status counts as retryable.
isRetryableStatusCodeAlways(statusCode, retryableStatusCodes) == TRUE

isRetryableStatusCode(statusCode, retryableStatusCodes) ==
    statusCode \in retryableStatusCodes

RECURSIVE Pow2(_)
Pow2(n) == IF n <= 0 THEN 1 ELSE 2 * Pow2(n - 1)

\* Mutant: a negative exponent is read as 0.
TimesPow2Clamped(x, e) == x * Pow2(e)

\* x * Math.pow(2, e): for a negative exponent the product is x / 2^(-e), which
\* is a whole number for the even base delays and the exponent -1 used here.
TimesPow2(x, e) == IF e >= 0 THEN x * Pow2(e) ELSE x \div Pow2(-e)

Min(a, b) == IF a < b THEN a ELSE b

\* The values Math.random() * maxJitter is sampled at: both ends of [0, maxJitter).
JitterDraws(maxJitter) == IF maxJitter > 0 THEN {0, maxJitter - 1} ELSE {0}

\* Mutant: the cap is applied to the backoff before the jitter is added.
BackoffDelayClampBeforeJitter(resolver, attemptNumber, jitter) ==
    LET base == IF resolver.exponentialBackoff
                THEN TimesPow2(resolver.baseDelay, attemptNumber - 1)
                ELSE resolver.baseDelay * attemptNumber
        capped == Min(base, resolver.maxDelay)
    IN  IF resolver.maxJitter > 0 THEN capped + jitter ELSE capped

\* The backoff of createDefaultRetryResolver's closure, for one jitter draw.
BackoffDelay(resolver, attemptNumber, jitter) ==
    LET base == IF resolver.exponentialBackoff
                THEN TimesPow2(resolver.baseDelay, attemptNumber - 1)
                ELSE resolver.baseDelay * attemptNumber
        delay == IF resolver.maxJitter > 0 THEN base + jitter ELSE base
    IN  Min(delay, resolver.maxDelay)

\* Mutant: a Retry-After delay equal to maxDelay already aborts.
createDefaultRetryResolverStrictCap(options, response, attemptNumber, retryableResponseCodes, now, jitter) ==
    LET resolver == DefaultRetryResolverOptions(options)
        header == response.headers.retryAfter
        shouldRespectRetryAfter ==
            /\ resolver.respectRetryAfter
            /\ response.statusCode = 429 \/ response.statusCode = 503
            /\ IsSome(header) /\ Len(Get(header)) > 0
        retryAfterDelay == parseRetryAfterHeader(Get(header), now)
    IN  IF ~isRetryableStatusCode(response.statusCode, retryableResponseCodes)
        THEN ABORT
        ELSE IF shouldRespectRetryAfter /\ IsSome(retryAfterDelay.result)
        THEN IF Get(retryAfterDelay.result) >= resolver.maxDelay
             THEN ABORT
             ELSE Get(retryAfterDelay.result)
        ELSE BackoffDelay(resolver, attemptNumber, jitter)

\* Mutant: the closure is not given the attempt number and always starts from
\* baseDelay.
createDefaultRetryResolverFixedBase(options, response, attemptNumber, retryableResponseCodes, now, jitter) ==
    LET resolver == DefaultRetryResolverOptions(options)
        header == response.headers.retryAfter
        shouldRespectRetryAfter ==
            /\ resolver.respectRetryAfter
            /\ response.statusCode = 429 \/ response.statusCode = 503
            /\ IsSome(header) /\ Len(Get(header)) > 0
        retryAfterDelay == parseRetryAfterHeader(Get(header), now)
        delay == IF resolver.maxJitter > 0 THEN resolver.baseDelay + jitter
                 ELSE resolver.baseDelay
    IN  IF ~isRetryableStatusCode(response.statusCode, retryableResponseCodes)
        THEN ABORT
        ELSE IF shouldRespectRetryAfter /\ IsSome(retryAfterDelay.result)
        THEN IF Get(retryAfterDelay.result) > resolver.maxDelay
             THEN ABORT
             ELSE Get(retryAfterDelay.result)
        ELSE Min(delay, resolver.maxDelay)

\* Mutant: a Retry-After header that does not parse is a reason to give up.
createDefaultRetryResolverAbortUnparsed(options, response, attemptNumber, retryableResponseCodes, now, jitter) ==
    LET resolver == DefaultRetryResolverOptions(options)
        header == response.headers.retryAfter
        shouldRespectRetryAfter ==
            /\ resolver.respectRetryAfter
            /\ response.statusCode = 429 \/ response.statusCode = 503
            /\ IsSome(header)
        retryAfterDelay == parseRetryAfterHeader(Get(header), now)
    IN  IF ~isRetryableStatusCode(response.statusCode, retryableResponseCodes)
        THEN ABORT
        ELSE IF shouldRespectRetryAfter
        THEN IF IsSome(retryAfterDelay.result)
                /\ Get(retryAfterDelay.result) <= resolver.maxDelay
             THEN Get(retryAfterDelay.result)
             ELSE ABORT
        ELSE BackoffDelay(resolver, attemptNumber, jitter)

\* Mutant: the Retry-After header is honoured whatever the status and the option.
createDefaultRetryResolverAnyStatus(options, response, attemptNumber, retryableResponseCodes, now, jitter) ==
    LET resolver == DefaultRetryResolverOptions(options)
        header == response.headers.retryAfter
        shouldRespectRetryAfter == IsSome(header) /\ Len(Get(header)) > 0
        retryAfterDelay == parseRetryAfterHeader(Get(header), now)
    IN  IF ~isRetryableStatusCode(response.statusCode, retryableResponseCodes)
        THEN ABORT
        ELSE IF shouldRespectRetryAfter /\ IsSome(retryAfterDelay.result)
        THEN IF Get(retryAfterDelay.result) > resolver.maxDelay
             THEN ABORT
             ELSE Get(retryAfterDelay.result)
        ELSE BackoffDelay(resolver, attemptNumber, jitter)

\* The function createDefaultRetryResolver(options) returns, applied to
\* (response, attemptNumber, retryableResponseCodes) at clock reading now.
createDefaultRetryResolver(options, response, attemptNumber, retryableResponseCodes, now, jitter) ==
    LET resolver == DefaultRetryResolverOptions(options)
        header == response.headers.retryAfter
        shouldRespectRetryAfter ==
            /\ resolver.respectRetryAfter
            /\ response.statusCode = 429 \/ response.statusCode = 503
            /\ IsSome(header) /\ Len(Get(header)) > 0
        retryAfterDelay == parseRetryAfterHeader(Get(header), now)
    IN  IF ~isRetryableStatusCode(response.statusCode, retryableResponseCodes)
        THEN ABORT
        ELSE IF shouldRespectRetryAfter /\ IsSome(retryAfterDelay.result)
        THEN IF Get(retryAfterDelay.result) > resolver.maxDelay
             THEN ABORT
             ELSE Get(retryAfterDelay.result)
        ELSE BackoffDelay(resolver, attemptNumber, jitter)

\* Mutant: the exponent and the factor are one too large.
calculateBackoffDelayOffByOne(this, attemptNumber, jitter) ==
    LET base == IF this.exponentialBackoff
                THEN TimesPow2(this.baseDelay, attemptNumber)
                ELSE this.baseDelay * (attemptNumber + 1)
        delay == IF this.maxJitter > 0 THEN base + jitter ELSE base
    IN  Min(delay, this.maxDelay)

\* DefaultRetryResolver.calculateBackoffDelay, for one jitter draw.
calculateBackoffDelay(this, attemptNumber, jitter) ==
    LET base == IF this.exponentialBackoff
                THEN TimesPow2(this.baseDelay, attemptNumber - 1)
                ELSE this.baseDelay * attemptNumber
        delay == IF this.maxJitter > 0 THEN base + jitter ELSE base
    IN  Min(delay, this.maxDelay)

\* DefaultRetryResolver.calculateDelay: Either<string, number>
calculateDelay(this, headers, attemptNumber, statusCode, now, jitter) ==
    LET header == headers.retryAfter
        applies == /\ statusCode = 429 \/ statusCode = 503
                   /\ this.respectRetryAfter
                   /\ IsSome(header) /\ Len(Get(header)) > 0
        retryAfterDelay == parseRetryAfterHeader(Get(header), now)
    IN  IF applies /\ IsSome(retryAfterDelay.result)
        THEN IF Get(retryAfterDelay.result) > this.maxDelay
             THEN Left("Retry-After delay exceeds maximum")
             ELSE Right(Get(retryAfterDelay.result))
        ELSE Right(Min(calculateBackoffDelay(this, attemptNumber, jitter), this.maxDelay))

\* DefaultRetryResolver.resolveRetryDecision: the RetryDecision without its reason.
resolveRetryDecision(this, response, attemptNumber, retryableResponseCodes, now, jitter) ==
    LET delay == calculateDelay(this, response.headers, attemptNumber,
                                response.statusCode, now, jitter)
    IN  IF ~isRetryableStatusCode(response.statusCode, retryableResponseCodes)
        THEN [shouldRetry |-> FALSE, delay |-> None]
        ELSE IF IsSome(delay.error)
        THEN [shouldRetry |-> FALSE, delay |-> None]
        ELSE [shouldRetry |-> TRUE, delay |-> delay.result]

\* const DEFAULT_DELAY_RESOLVER = createDefaultRetryResolver()
DEFAULT_DELAY_RESOLVER(response, attemptNumber, statusCodesToRetry, now, jitter) ==
    createDefaultRetryResolver(NoOptions, response, attemptNumber, statusCodesToRetry, now, jitter)

-----------------------------------------------------------------------------
(* lib/either.ts: createDelayToNextMinuteResolver *)

\* One minute, in milliseconds.
MINUTE == 60000

\* Mutant: on a minute boundary the wait to the next minute is zero.
createDelayToNextMinuteResolverOnBoundary(config, response, now) ==
    LET offset == Nullish(config, [offsetInMsecs |-> 100]).offsetInMsecs
    IN  IF response.statusCode = 429
        THEN Some(((MINUTE - (now % MINUTE)) % MINUTE) + offset)
        ELSE None

\* createDelayToNextMinuteResolver(config = { offsetInMsecs: 100 })(response)
\* when Date.now() reads now; None is undefined.
createDelayToNextMinuteResolver(config, response, now) ==
    LET offset == Nullish(config, [offsetInMsecs |-> 100]).offsetInMsecs
    IN  IF response.statusCode = 429
        THEN Some(MINUTE - (now % MINUTE) + offset)
        ELSE None

-----------------------------------------------------------------------------
(* lib/undiciRetry.ts *)

VARIABLES
    entry,           \* the exported function called
    retryConfig,     \* RetryConfig of the call
    requestParams,   \* RequestParams of the call
    attemptsSoFar,   \* the loop's counter
    pc,              \* where the call is suspended
    response,        \* the Dispatcher.ResponseData of the current attempt, if any
    delay,           \* const delay of the current iteration
    returned,        \* the value the promise resolved with, if any
    thrown,          \* the error the promise rejected with, if any
    requestsIssued,  \* client.request calls made by the call
    consulted,       \* the delay resolver's part in the current attempt, if any
    raised,          \* where the current attempt raised, if it did
    current,         \* what the current attempt has yielded so far
    earlier,         \* TRUE while every earlier attempt yielded "retryable"
    resolverOptions, \* the options a default resolver was created with
    resolverArgs,    \* the arguments of a direct call of a default resolver, if any
    clock,           \* the reading of Date.now() during that call
    decision,        \* what that call returned, if it has returned
    aborted,         \* request.signal.aborted: the caller has aborted the request's signal
    calls            \* the calls in progress at once, each with its own locals

\* The variables of a direct call of the default resolver.
resolverVars == <<resolverOptions, resolverArgs, clock, decision>>

\* The variables of a call of sendWithRetry or sendWithRetryReturnStream.
engineVars == <<entry, retryConfig, requestParams, attemptsSoFar, pc, response, delay,
                returned, thrown, requestsIssued, consulted, raised, current, earlier>>

vars == <<engineVars, resolverVars, aborted, calls>>

Entries == {"sendWithRetry", "sendWithRetryReturnStream"}

RetryConfigs ==
    [maxAttempts : 1..MaxAttemptsBound,
     delayResolver : {None, Some("custom"), Some("createDefaultRetryResolver")},
     statusCodesToRetry : StatusCodeSets,
     retryOnTimeout : BOOLEAN]

\* StreamedResponseRequestParams omits blobBody and safeParseJson.
RequestParamsOf(e) ==
    [blobBody : IF e = "sendWithRetry" THEN {None, Some(TRUE)} ELSE {None},
     safeParseJson : IF e = "sendWithRetry" THEN {None, Some(TRUE)} ELSE {None},
     requestLabel : Labels,
     throwOnInternalError : {None, Some(FALSE), Some(TRUE)}]

\* Mutant: any value that is present counts as true.
TruthyWhenPresent(o) == IsSome(o)

\* JavaScript truthiness of an optional boolean.
Truthy(o) == o = Some(TRUE)

\* The message of an error the transport or a body read raised: one per error name.
MessageOf(name) == <<"message of", name>>

\* An Error object as the engine sees it: its name, its message and the marker
\* properties.
MkError(name) ==
    [name |-> name,
     message |-> MessageOf(name),
     isUnprocessableResponseError |-> FALSE,
     isInternalRequestError |-> FALSE,
     requestLabel |-> None,
     details |-> None,
     error |-> None]

\* new UnprocessableResponseError({ message, errorCode, requestLabel, rawBody }):
\* the label and the raw body are kept in details.
UnprocessableResponseError(requestLabel, rawBody) ==
    [MkError("UnprocessableResponseError") EXCEPT
        !.message = <<"Error while parsing HTTP JSON response">>,
        !.isUnprocessableResponseError = TRUE,
        !.details = Some([rawBody |-> rawBody, requestLabel |-> requestLabel])]

\* new UndiciRetryRequestError({ error: err, message: err.message, requestLabel })
UndiciRetryRequestError(err, requestLabel) ==
    [MkError("InternalRequestError") EXCEPT
        !.message = err.message,
        !.isInternalRequestError = TRUE,
        !.requestLabel = requestLabel,
        !.error = Some(err)]

\* Mutant: the type guard recognises nothing.
isUnprocessableResponseErrorNever(err) == FALSE

isUnprocessableResponseError(err) == err.isUnprocessableResponseError

isRequestResult(entity) == "statusCode" \in DOMAIN entity

Ok(v) == [ok |-> TRUE, value |-> v]
Threw(e) == [ok |-> FALSE, value |-> e]

\* resolveBody(response, requestLabel = 'N/A', blobBody = false, safeParseJson = false)
\* when reading the body stream ends with fault.
resolveBody(resp, requestLabel, blobBody, safeParseJson, fault) ==
    LET label == Nullish(requestLabel, "N/A")
        contentType == resp.headers.contentType
        read(kind) == IF fault = "none" THEN Ok(<<kind, resp.body.id>>)
                      ELSE Threw(MkError(fault))
    IN  IF Truthy(blobBody) THEN read("blob")
        ELSE IF IsSome(contentType) /\ Get(contentType) = "application/json"
        THEN IF ~Truthy(safeParseJson)
             THEN IF fault = "none" /\ ~resp.body.parses
                  THEN Threw(MkError("SyntaxError"))
                  ELSE read("json")
             ELSE IF fault = "none" /\ ~resp.body.parses
                  THEN Threw(UnprocessableResponseError(label, resp.body.id))
                  ELSE read("json")
        ELSE read("text")

\* The success arm of the loop's return value.
SuccessValue(resp, resolvedBody) ==
    [result |-> Some([body |-> resolvedBody,
                      headers |-> resp.headers,
                      statusCode |-> resp.statusCode]),
     error |-> None]

\* Mutant: the error arm for an HTTP response leaves the label out.
FailureValueUnlabelled(resp, resolvedBody, requestLabel) ==
    [result |-> None,
     error |-> Some([body |-> resolvedBody,
                     headers |-> resp.headers,
                     statusCode |-> resp.statusCode,
                     requestLabel |-> None])]

\* The error arm for an HTTP response.
FailureValue(resp, resolvedBody, requestLabel) ==
    [result |-> None,
     error |-> Some([body |-> resolvedBody,
                     headers |-> resp.headers,
                     statusCode |-> resp.statusCode,
                     requestLabel |-> requestLabel])]

\* Mutant: the error arm is filled from the caught error's (absent) cause.
InternalErrorValueOfCause(err, requestLabel) ==
    [result |-> None, error |-> err.error]

\* The error arm for a caught error: tagged unless it is an UnprocessableResponseError.
InternalErrorValue(err, requestLabel) ==
    [result |-> None,
     error |-> Some(IF ~isUnprocessableResponseError(err)
                    THEN [err EXCEPT !.requestLabel = requestLabel,
                                     !.isInternalRequestError = TRUE]
                    ELSE err)]

\* Mutant: the success test is inverted.
IsSuccessStatusInverted(statusCode) == statusCode >= FIRST_ERROR_STATUS

\* Mutant: only informational statuses count as success.
IsSuccessStatusBelow200(statusCode) == statusCode < 200

\* response.statusCode < 400
IsSuccessStatus(statusCode) == statusCode < FIRST_ERROR_STATUS

\* retryConfig.statusCodesToRetry || DEFAULT_RETRYABLE_STATUS_CODES
EffectiveStatusCodes(config) ==
    Nullish(config.statusCodesToRetry, DEFAULT_RETRYABLE_STATUS_CODES)

\* Mutant: the budget test gives up one attempt early.
BudgetExhaustedEarly(attempts, maxAttempts) == attempts + 1 >= maxAttempts

\* Mutant: the budget test lets one attempt too many through.
BudgetExhaustedLate(attempts, maxAttempts) == attempts > maxAttempts

\* attemptsSoFar >= retryConfig.maxAttempts
BudgetExhausted(attempts, maxAttempts) == attempts >= maxAttempts

\* Mutant: a status outside the retry set ends the call only once the budget is spent.
IsTerminalResponseBoth(statusCode, codes, attempts, maxAttempts) ==
    statusCode \notin codes /\ attempts >= maxAttempts

\* Mutant: after the first attempt every error response ends the call.
IsTerminalResponseAfterFirst(statusCode, codes, attempts, maxAttempts) ==
    statusCode \notin codes \/ attempts >= maxAttempts \/ attempts > 1

\* Mutant: the budget is not looked at before the resolver is consulted.
IsTerminalResponseCodesOnly(statusCode, codes, attempts, maxAttempts) ==
    statusCode \notin codes

\* "Do not retry, return last error response"
IsTerminalResponse(statusCode, codes, attempts, maxAttempts) ==
    statusCode \notin codes \/ BudgetExhausted(attempts, maxAttempts)

\* Mutant: with retryOnTimeout off every caught error ends the call.
CatchIsTerminalAnyError(err, attempts, config) ==
    \/ BudgetExhausted(attempts, config.maxAttempts)
    \/ config.retryOnTimeout = FALSE

\* Mutant: only the budget ends the call.
CatchIsTerminalBudgetOnly(err, attempts, config) ==
    BudgetExhausted(attempts, config.maxAttempts)

\* Mutant: only what client.request rejects with is retried.
CatchIsTerminalUnlessTransport(err, attempts, config) ==
    \/ BudgetExhausted(attempts, config.maxAttempts)
    \/ (config.retryOnTimeout = FALSE /\ err.name \in TIMEOUT_ERRORS)
    \/ err.name \notin (TransportErrorNames \cup {ABORT_ERROR})

\* The condition of the catch block under which the call ends.
CatchIsTerminal(err, attempts, config) ==
    \/ BudgetExhausted(attempts, config.maxAttempts)
    \/ (config.retryOnTimeout = FALSE /\ err.name \in TIMEOUT_ERRORS)

\* Mutant: every negative delay is read as abort.
IsAbortNegative(d) == d < 0

\* Mutant: -1 itself is not read as abort.
IsAbortBelow(d) == d < ABORT

\* delay === -1
IsAbort(d) == d = ABORT

\* Mutant: the next attempt does not wait for the delay.
ShouldSleepNever(d) == FALSE

\* if (delay > 0) await setTimeout(delay)
ShouldSleep(d) == d > 0

-----------------------------------------------------------------------------
(* sendWithRetryInternal *)

\* export const DEFAULT_RETRY_CONFIG
DEFAULT_RETRY_CONFIG ==
    [maxAttempts |-> 3,
     delayResolver |-> None,
     statusCodesToRetry |-> Some(DEFAULT_RETRYABLE_STATUS_CODES),
     retryOnTimeout |-> FALSE]

\* export const DEFAULT_REQUEST_PARAMS
DEFAULT_REQUEST_PARAMS ==
    [blobBody |-> Some(FALSE),
     safeParseJson |-> Some(FALSE),
     requestLabel |-> None,
     throwOnInternalError |-> None]

\* The calls of sendWithRetry in progress at once.
CallIds == {1, 2}

\* The locals of a call that has just entered sendWithRetryInternal:
\* let attemptsSoFar = 0, nothing requested and nothing returned yet.
NewCall ==
    [attemptsSoFar |-> 0,
     requestsIssued |-> 0,
     pc |-> "loop",
     response |-> None,
     delay |-> 0,
     returned |-> None]

Init ==
    /\ entry \in Entries
    /\ retryConfig \in RetryConfigs
    /\ requestParams \in RequestParamsOf(entry)
    /\ attemptsSoFar = 0
    /\ pc = "loop"
    /\ response = None
    /\ delay = 0
    /\ returned = None
    /\ thrown = None
    /\ requestsIssued = 0
    /\ consulted = None
    /\ raised = None
    /\ current = "none"
    /\ earlier = TRUE
    /\ resolverOptions = NoOptions
    /\ resolverArgs = None
    /\ clock = 0
    /\ decision = None
    /\ aborted = FALSE
    /\ calls = [i \in CallIds |-> NewCall]

\* Mutant: the value is delivered by rejecting the promise.
ReturnAsRejection(value) ==
    /\ pc' = "thrown"
    /\ thrown' = Some(value)
    /\ UNCHANGED returned

Return(value) ==
    /\ pc' = "returned"
    /\ returned' = Some(value)
    /\ UNCHANGED thrown

Throw(err) ==
    /\ pc' = "thrown"
    /\ thrown' = Some(err)
    /\ UNCHANGED returned

\* Mutant: a caught error that does not end the call is followed by a sleep.
CatchThenSleep(err) ==
    IF CatchIsTerminal(err, attemptsSoFar, retryConfig)
    THEN IF ~Truthy(requestParams.throwOnInternalError)
         THEN Return(InternalErrorValue(err, requestParams.requestLabel))
         ELSE IF isUnprocessableResponseError(err)
         THEN Throw(err)
         ELSE Throw(UndiciRetryRequestError(err, requestParams.requestLabel))
    ELSE /\ pc' = "sleep"
         /\ UNCHANGED <<returned, thrown>>

\* catch (err): end the call or fall out of the try into the next iteration.
Catch(err) ==
    IF CatchIsTerminal(err, attemptsSoFar, retryConfig)
    THEN IF ~Truthy(requestParams.throwOnInternalError)
         THEN Return(InternalErrorValue(err, requestParams.requestLabel))
         ELSE IF isUnprocessableResponseError(err)
         THEN Throw(err)
         ELSE Throw(UndiciRetryRequestError(err, requestParams.requestLabel))
    ELSE /\ pc' = "loop"
         /\ UNCHANGED <<returned, thrown>>

\* Where the current attempt raised, and the name of the error.
Raise(site, name) == [site |-> site, name |-> name]

\* The body of the response after one more operation consumed it.
BodyRead(resp) == [resp EXCEPT !.bodyReads = @ + 1]

\* Mutant: the loop issues the request without counting the attempt.
IssueRequestUncounted ==
    /\ pc = "loop"
    /\ pc' = "request"
    /\ delay' = 0
    /\ consulted' = None
    /\ raised' = None
    /\ earlier' = (earlier /\ (attemptsSoFar = 0 \/ current = "retryable"))
    /\ current' = "none"
    /\ response' = None
    /\ UNCHANGED <<resolverVars, aborted, calls, entry, retryConfig, requestParams, returned, thrown,
                   attemptsSoFar, requestsIssued>>

\* while (true) { attemptsSoFar++ ; client.request(request)
IssueRequest ==
    /\ pc = "loop"
    /\ attemptsSoFar' = attemptsSoFar + 1
    /\ requestsIssued' = requestsIssued + 1
    /\ pc' = "request"
    /\ delay' = 0
    /\ consulted' = None
    /\ raised' = None
    /\ earlier' = (earlier /\ (attemptsSoFar = 0 \/ current = "retryable"))
    /\ current' = "none"
    /\ response' = None
    /\ UNCHANGED <<resolverVars, aborted, calls, entry, retryConfig, requestParams, returned, thrown>>

\* Mutant: "no preference" falls back to the base delay instead of 0.
DelayOrDefaultBase(out) == Nullish(out, DEFAULT_BASE_DELAY)

\* effectiveDelayResolver(...) ?? 0
DelayOrDefault(out) == Nullish(out, 0)

\* Mutant: the resolver is given the number of retries made so far (0-indexed).
ResolvedZeroIndexed(out) ==
    LET d == DelayOrDefault(out)
    IN  /\ delay' = d
        /\ consulted' = Some([attemptNumber |-> attemptsSoFar - 1, threw |-> FALSE, value |-> out])
        /\ IF IsAbort(d)
           THEN pc' = "abort" /\ current' = "aborted"
           ELSE pc' = "dump" /\ current' = "retryable"
        /\ UNCHANGED <<raised, returned, thrown>>

\* const delay = effectiveDelayResolver(response, attemptsSoFar, statusCodesToRetry) ?? 0
Resolved(out) ==
    LET d == DelayOrDefault(out)
    IN  /\ delay' = d
        /\ consulted' = Some([attemptNumber |-> attemptsSoFar, threw |-> FALSE, value |-> out])
        /\ IF IsAbort(d)
           THEN pc' = "abort" /\ current' = "aborted"
           ELSE pc' = "dump" /\ current' = "retryable"
        /\ UNCHANGED <<raised, returned, thrown>>

\* The delay resolver throws: control passes to the catch block.
ResolverThrows ==
    /\ consulted' = Some([attemptNumber |-> attemptsSoFar, threw |-> TRUE, value |-> None])
    /\ raised' = Some(Raise("delayResolver", "TypeError"))
    /\ current' = "retryable"
    /\ Catch(MkError("TypeError"))
    /\ UNCHANGED delay

\* The options of the resolver a caller builds with createDefaultRetryResolver
\* and passes as retryConfig.delayResolver: a cap of five seconds.
CONFIGURED_RESOLVER_OPTIONS ==
    [NoOptions EXCEPT !.baseDelay = Some(100), !.maxDelay = Some(5000)]

\* retryConfig.delayResolver || DEFAULT_DELAY_RESOLVER, applied to the response
ConsultResolver(r) ==
    IF retryConfig.delayResolver = None
    THEN \E now \in Clocks, jitter \in JitterDraws(DEFAULT_MAX_JITTER) :
            Resolved(Some(DEFAULT_DELAY_RESOLVER(
                r, attemptsSoFar, EffectiveStatusCodes(retryConfig), now, jitter)))
    ELSE IF retryConfig.delayResolver = Some("createDefaultRetryResolver")
    THEN \E now \in Clocks, jitter \in JitterDraws(DEFAULT_MAX_JITTER) :
            Resolved(Some(createDefaultRetryResolver(
                CONFIGURED_RESOLVER_OPTIONS, r, attemptsSoFar,
                EffectiveStatusCodes(retryConfig), now, jitter)))
    ELSE \/ \E out \in CustomResolverReturns : Resolved(out)
         \/ ResolverThrows

\* client.request resolves (it cannot when request.signal is aborted): the
\* response is classified up to the next await.
RequestResolves ==
    /\ pc = "request"
    /\ ~aborted
    /\ \E r \in Responses(requestsIssued) :
        /\ response' = Some(r)
        /\ IF IsSuccessStatus(r.statusCode)
           THEN /\ pc' = "handleSuccessBody"
                /\ current' = "success"
                /\ UNCHANGED <<delay, consulted, raised, returned, thrown>>
           ELSE IF IsTerminalResponse(r.statusCode, EffectiveStatusCodes(retryConfig),
                                      attemptsSoFar, retryConfig.maxAttempts)
           THEN /\ pc' = "resolveBody"
                /\ current' = IF r.statusCode \in EffectiveStatusCodes(retryConfig)
                              THEN "retryable" ELSE "nonRetryable"
                /\ UNCHANGED <<delay, consulted, raised, returned, thrown>>
           ELSE ConsultResolver(r)
    /\ UNCHANGED <<resolverVars, aborted, calls, entry, retryConfig, requestParams, attemptsSoFar, requestsIssued, earlier>>

\* client.request rejects: with the abort error, at once, when request.signal
\* is aborted.
RequestRejects ==
    /\ pc = "request"
    /\ \E name \in (IF aborted THEN {ABORT_ERROR} ELSE TransportErrorNames) :
        /\ raised' = Some(Raise("request", name))
        /\ current' = "failure"
        /\ Catch(MkError(name))
    /\ UNCHANGED <<resolverVars, aborted, calls, entry, retryConfig, requestParams, attemptsSoFar, response, delay,
                   requestsIssued, consulted, earlier>>

\* Mutant: both entry points materialize the success body.
HandleSuccessBodyResolving(e) ==
    /\ pc = "handleSuccessBody"
    /\ \E fault \in BodyFaults :
         LET res == resolveBody(Get(response), requestParams.requestLabel,
                                requestParams.blobBody, requestParams.safeParseJson, fault)
         IN  /\ response' = Some(BodyRead(Get(response)))
             /\ IF res.ok
                THEN Return(SuccessValue(Get(response), res.value)) /\ UNCHANGED raised
                ELSE raised' = Some(Raise("handleSuccessBody", res.value.name)) /\ Catch(res.value)
    /\ UNCHANGED <<resolverVars, aborted, calls, entry, retryConfig, requestParams, attemptsSoFar, delay,
                   requestsIssued, consulted, current, earlier>>

\* const resolvedBody = await handleSuccessBody(response); return { result }
HandleSuccessBodyOf(e) ==
    /\ pc = "handleSuccessBody"
    /\ IF e = "sendWithRetryReturnStream"
       THEN /\ Return(SuccessValue(Get(response), <<"stream", Get(response).body.id>>))
            /\ UNCHANGED <<response, raised>>
       ELSE \E fault \in BodyFaults :
            LET res == resolveBody(Get(response), requestParams.requestLabel,
                                   requestParams.blobBody, requestParams.safeParseJson, fault)
            IN  /\ response' = Some(BodyRead(Get(response)))
                /\ IF res.ok
                   THEN Return(SuccessValue(Get(response), res.value)) /\ UNCHANGED raised
                   ELSE raised' = Some(Raise("handleSuccessBody", res.value.name)) /\ Catch(res.value)
    /\ UNCHANGED <<resolverVars, aborted, calls, entry, retryConfig, requestParams, attemptsSoFar, delay,
                   requestsIssued, consulted, current, earlier>>

\* return handleSuccessBody(response), the handler being the entry point's.
HandleSuccessBody == HandleSuccessBodyOf(entry)

\* resolveBody(response, requestLabel) and return { error } for the response.
ReturnFailure ==
    \E fault \in BodyFaults :
        LET res == resolveBody(Get(response), requestParams.requestLabel, None, None, fault)
        IN  /\ response' = Some(BodyRead(Get(response)))
            /\ IF res.ok
               THEN /\ Return(FailureValue(Get(response), res.value, requestParams.requestLabel))
                    /\ UNCHANGED raised
               ELSE raised' = Some(Raise("resolveBody", res.value.name)) /\ Catch(res.value)

\* "Do not retry, return last error response"
ReturnErrorResponse ==
    /\ pc = "resolveBody"
    /\ ReturnFailure
    /\ UNCHANGED <<resolverVars, aborted, calls, entry, retryConfig, requestParams, attemptsSoFar, delay,
                   requestsIssued, consulted, current, earlier>>

\* "Do not retry if delayResolver returns -1"
AbortRetry ==
    /\ pc = "abort"
    /\ ReturnFailure
    /\ UNCHANGED <<resolverVars, aborted, calls, entry, retryConfig, requestParams, attemptsSoFar, delay,
                   requestsIssued, consulted, current, earlier>>

\* await response.body.dump(), then the sleep if delay > 0.  dump() resolves when
\* the body stream closes, whether it ended or errored, so this step never raises.
DumpBody ==
    /\ pc = "dump"
    /\ response' = Some(BodyRead(Get(response)))
    /\ pc' = IF ShouldSleep(delay) THEN "sleep" ELSE "loop"
    /\ UNCHANGED <<resolverVars, aborted, calls, entry, retryConfig, requestParams, attemptsSoFar, delay, returned, thrown,
                   requestsIssued, consulted, raised, current, earlier>>

\* await setTimeout(delay) completes.
SleepElapses ==
    /\ pc = "sleep"
    /\ pc' = "loop"
    /\ UNCHANGED <<resolverVars, aborted, calls, entry, retryConfig, requestParams, attemptsSoFar, response, delay, returned,
                   thrown, requestsIssued, consulted, raised, current, earlier>>

Next ==
    \/ IssueRequest
    \/ RequestResolves
    \/ RequestRejects
    \/ HandleSuccessBody
    \/ ReturnErrorResponse
    \/ AbortRetry
    \/ DumpBody
    \/ SleepElapses

Spec == Init /\ [][Next]_vars

\* The call when every awaited operation settles: the request resolves or
\* rejects, body reads and dumps finish, the sleep elapses.
SpecLive == Init /\ [][Next]_vars /\ WF_vars(Next)

\* The caller aborts request.signal while the call is suspended in
\* await setTimeout(delay), which was not given the signal.
SignalAborts ==
    /\ pc = "sleep"
    /\ ~aborted
    /\ aborted' = TRUE
    /\ UNCHANGED <<engineVars, resolverVars, calls>>

NextCancel ==
    \/ Next
    \/ SignalAborts

\* The call with a caller that may abort the request's signal during a sleep.
SpecCancel == Init /\ [][NextCancel]_vars

-----------------------------------------------------------------------------
(* Two calls of sendWithRetry in progress at once: the same client, the same
   retryConfig object, no delayResolver of their own *)

\* The largest maxAttempts of a retryConfig two calls share.
MaxConcurrentAttempts == 2

\* The retryConfig object both calls are given: without a delayResolver, so
\* both fall back to DEFAULT_DELAY_RESOLVER.
ConcurrentRetryConfigs ==
    [maxAttempts : 1..MaxConcurrentAttempts,
     delayResolver : {None},
     statusCodesToRetry : {None, Some({400, 429})},
     retryOnTimeout : BOOLEAN]

\* Dispatcher.ResponseData the shared client resolves the n-th request of call
\* i with: a text body tagged with the call and the request.
ConcurrentResponses(i, n) ==
    { [statusCode |-> s,
       headers |-> [contentType |-> Some("text/plain"), retryAfter |-> ra],
       body |-> [id |-> <<i, n>>, parses |-> FALSE],
       bodyReads |-> 0] :
        s \in Statuses, ra \in {None, Some(<<"1", "2", "0">>)} }

ConcurrentInit ==
    /\ entry = "sendWithRetry"
    /\ retryConfig \in ConcurrentRetryConfigs
    /\ requestParams = DEFAULT_REQUEST_PARAMS
    /\ attemptsSoFar = 0
    /\ pc = "idle"
    /\ response = None
    /\ delay = 0
    /\ returned = None
    /\ thrown = None
    /\ requestsIssued = 0
    /\ consulted = None
    /\ raised = None
    /\ current = "none"
    /\ earlier = TRUE
    /\ resolverOptions = NoOptions
    /\ resolverArgs = None
    /\ clock = 0
    /\ decision = None
    /\ aborted = FALSE
    /\ calls = [i \in CallIds |-> NewCall]

\* Mutant: the attempt counter is a module-level variable all calls count on.
AttemptsSoFarShared(cs, i) == cs[1].attemptsSoFar + cs[2].attemptsSoFar

\* let attemptsSoFar = 0: the counter is a local of the call.
AttemptsSoFarOf(cs, i) == cs[i].attemptsSoFar

\* Call i moves to the locals next; nothing else changes.
CallBecomes(i, next) ==
    /\ calls' = [calls EXCEPT ![i] = next]
    /\ UNCHANGED <<engineVars, resolverVars, aborted>>

\* while (true) { attemptsSoFar++ ; client.request(request), in call i
ConcurrentIssueRequest(i) ==
    /\ calls[i].pc = "loop"
    /\ CallBecomes(i, [calls[i] EXCEPT !.attemptsSoFar = @ + 1,
                                       !.requestsIssued = @ + 1,
                                       !.pc = "request",
                                       !.response = None,
                                       !.delay = 0])

\* client.request of call i resolves: the response is classified up to the
\* next await, the module-level DEFAULT_DELAY_RESOLVER being consulted.
ConcurrentRequestResolves(i) ==
    /\ calls[i].pc = "request"
    /\ \E r \in ConcurrentResponses(i, calls[i].requestsIssued) :
        IF IsSuccessStatus(r.statusCode)
        THEN CallBecomes(i, [calls[i] EXCEPT !.response = Some(r),
                                              !.pc = "handleSuccessBody"])
        ELSE IF IsTerminalResponse(r.statusCode, EffectiveStatusCodes(retryConfig),
                                   AttemptsSoFarOf(calls, i), retryConfig.maxAttempts)
        THEN CallBecomes(i, [calls[i] EXCEPT !.response = Some(r),
                                              !.pc = "resolveBody"])
        ELSE \E now \in Clocks, jitter \in JitterDraws(DEFAULT_MAX_JITTER) :
                LET d == DelayOrDefault(Some(DEFAULT_DELAY_RESOLVER(
                             r, AttemptsSoFarOf(calls, i),
                             EffectiveStatusCodes(retryConfig), now, jitter)))
                IN  CallBecomes(i, [calls[i] EXCEPT
                        !.response = Some(r),
                        !.delay = d,
                        !.pc = IF IsAbort(d) THEN "abort" ELSE "dump"])

\* client.request of call i rejects: the catch block ends the call or falls
\* out of the try into the next iteration.
ConcurrentRequestRejects(i) ==
    /\ calls[i].pc = "request"
    /\ \E name \in TransportErrorNames :
        IF CatchIsTerminal(MkError(name), AttemptsSoFarOf(calls, i), retryConfig)
        THEN CallBecomes(i, [calls[i] EXCEPT
                !.pc = "returned",
                !.returned = Some(InternalErrorValue(MkError(name),
                                                     requestParams.requestLabel))])
        ELSE CallBecomes(i, [calls[i] EXCEPT !.pc = "loop"])

\* const resolvedBody = await handleSuccessBody(response); return { result },
\* in call i
ConcurrentHandleSuccessBody(i) ==
    /\ calls[i].pc = "handleSuccessBody"
    /\ LET resp == Get(calls[i].response)
           res == resolveBody(resp, requestParams.requestLabel, requestParams.blobBody,
                              requestParams.safeParseJson, "none")
       IN  CallBecomes(i, [calls[i] EXCEPT
               !.response = Some(BodyRead(resp)),
               !.pc = "returned",
               !.returned = Some(SuccessValue(resp, res.value))])

\* return { error: { body: await resolveBody(response), ... } } in call i: the
\* last error response, or the one the resolver answered -1 for.
ConcurrentReturnErrorResponse(i) ==
    /\ calls[i].pc \in {"resolveBody", "abort"}
    /\ LET resp == Get(calls[i].response)
           res == resolveBody(resp, requestParams.requestLabel, requestParams.blobBody,
                              requestParams.safeParseJson, "none")
       IN  CallBecomes(i, [calls[i] EXCEPT
               !.response = Some(BodyRead(resp)),
               !.pc = "returned",
               !.returned = Some(FailureValue(resp, res.value,
                                              requestParams.requestLabel))])

\* await response.body.dump() in call i, then the sleep if delay > 0.
ConcurrentDumpBody(i) ==
    /\ calls[i].pc = "dump"
    /\ CallBecomes(i, [calls[i] EXCEPT
           !.response = Some(BodyRead(Get(calls[i].response))),
           !.pc = IF ShouldSleep(calls[i].delay) THEN "sleep" ELSE "loop"])

\* await setTimeout(delay) of call i completes.
ConcurrentSleepElapses(i) ==
    /\ calls[i].pc = "sleep"
    /\ CallBecomes(i, [calls[i] EXCEPT !.pc = "loop"])

\* One of the calls runs from one await to the next.
NextConcurrent ==
    \/ \E i \in CallIds : ConcurrentIssueRequest(i)
    \/ \E i \in CallIds : ConcurrentRequestResolves(i)
    \/ \E i \in CallIds : ConcurrentRequestRejects(i)
    \/ \E i \in CallIds : ConcurrentHandleSuccessBody(i)
    \/ \E i \in CallIds : ConcurrentReturnErrorResponse(i)
    \/ \E i \in CallIds : ConcurrentDumpBody(i)
    \/ \E i \in CallIds : ConcurrentSleepElapses(i)

SpecConcurrent == ConcurrentInit /\ [][NextConcurrent]_vars

-----------------------------------------------------------------------------
(* Direct calls of createDefaultRetryResolver(options) and of
   new DefaultRetryResolver(options).resolveRetryDecision *)

\* The largest attempt number a resolver is called with.
MaxAttemptNumber == 5

\* DefaultRetryResolverOptions the caller passes.
ResolverOptionSets ==
    [baseDelay : {None, Some(1000), Some(59950)},
     maxDelay : {None, Some(3000), Some(5000)},
     maxJitter : {None, Some(0)},
     exponentialBackoff : {None, Some(TRUE), Some(FALSE)},
     respectRetryAfter : {None, Some(FALSE)}]

\* Retry-After header values a resolver is called with: those of the transport,
\* short waits, a date in the past and the empty string.
ResolverRetryAfterValues ==
    RetryAfterValues \cup
        {<<"0">>, <<"0", "0", "7">>, <<"3">>, <<"6", "0">>, <<"GMT:", "3", "0">>, <<>>}

\* Readings of Date.now() during a direct call: before, at and after the date
\* <<"GMT:", "4", "0">>.
ResolverClocks == Clocks \cup {40000, 45000}

ResolverStatuses == {400, 429, 500, 503}

\* The part of Dispatcher.ResponseData a resolver reads.
ResolverResponses ==
    { [statusCode |-> s, headers |-> [retryAfter |-> h]] :
        s \in ResolverStatuses,
        h \in {None} \cup {Some(v) : v \in ResolverRetryAfterValues} }

RetryableCodeSets == {DEFAULT_RETRYABLE_STATUS_CODES, {429}}

\* A resolver is called on its own: no sendWithRetry call is in progress.
ResolverInit ==
    /\ entry = "sendWithRetry"
    /\ retryConfig = DEFAULT_RETRY_CONFIG
    /\ requestParams = DEFAULT_REQUEST_PARAMS
    /\ attemptsSoFar = 0
    /\ pc = "idle"
    /\ response = None
    /\ delay = 0
    /\ returned = None
    /\ thrown = None
    /\ requestsIssued = 0
    /\ consulted = None
    /\ raised = None
    /\ current = "none"
    /\ earlier = TRUE
    /\ resolverOptions \in ResolverOptionSets
    /\ resolverArgs \in
          { Some([response |-> r, attemptNumber |-> n, retryableResponseCodes |-> c]) :
              r \in ResolverResponses, n \in 0..MaxAttemptNumber, c \in RetryableCodeSets }
    /\ clock \in ResolverClocks
    /\ decision = None
    /\ aborted = FALSE
    /\ calls = [i \in CallIds |-> NewCall]

\* createDefaultRetryResolver(options)(response, attemptNumber, retryableResponseCodes)
CallDelayResolver ==
    /\ decision = None
    /\ IsSome(resolverArgs)
    /\ \E jitter \in JitterDraws(DefaultRetryResolverOptions(resolverOptions).maxJitter) :
          decision' = Some([by |-> "createDefaultRetryResolver",
                            jitter |-> jitter,
                            value |-> createDefaultRetryResolver(
                                resolverOptions, Get(resolverArgs).response,
                                Get(resolverArgs).attemptNumber,
                                Get(resolverArgs).retryableResponseCodes, clock, jitter)])
    /\ UNCHANGED <<engineVars, aborted, calls, resolverOptions, resolverArgs, clock>>

\* new DefaultRetryResolver(options).resolveRetryDecision(response, attemptNumber,
\* retryableResponseCodes)
CallResolveRetryDecision ==
    /\ decision = None
    /\ IsSome(resolverArgs)
    /\ \E jitter \in JitterDraws(DefaultRetryResolverOptions(resolverOptions).maxJitter) :
          decision' = Some([by |-> "resolveRetryDecision",
                            jitter |-> jitter,
                            value |-> resolveRetryDecision(
                                DefaultRetryResolverOptions(resolverOptions),
                                Get(resolverArgs).response,
                                Get(resolverArgs).attemptNumber,
                                Get(resolverArgs).retryableResponseCodes, clock, jitter)])
    /\ UNCHANGED <<engineVars, aborted, calls, resolverOptions, resolverArgs, clock>>

\* parseRetryAfterHeader(response.headers['retry-after']) called on its own.
CallParseRetryAfterHeader ==
    /\ decision = None
    /\ IsSome(resolverArgs)
    /\ IsSome(Get(resolverArgs).response.headers.retryAfter)
    /\ decision' = Some([by |-> "parseRetryAfterHeader",
                         jitter |-> 0,
                         value |-> parseRetryAfterHeader(
                             Get(Get(resolverArgs).response.headers.retryAfter), clock)])
    /\ UNCHANGED <<engineVars, aborted, calls, resolverOptions, resolverArgs, clock>>

NextResolver ==
    \/ CallDelayResolver
    \/ CallResolveRetryDecision
    \/ CallParseRetryAfterHeader

SpecResolver == ResolverInit /\ [][NextResolver]_vars

-----------------------------------------------------------------------------
(* Direct calls of createDelayToNextMinuteResolver(config) *)

\* CreateDelayToNextMinuteResolverConfig values the caller passes, None for a
\* call without an argument.
NextMinuteConfigs ==
    {None} \cup { Some([offsetInMsecs |-> o]) : o \in {0, 200, -5000} }

\* Readings of Date.now() during the call: on a minute boundary, one
\* millisecond before one, 3.432 and 55.001 seconds into a minute.
NextMinuteClocks == {60000, 119999, 123432, 175001}

\* The resolver is called on its own: no sendWithRetry call is in progress.
NextMinuteInit ==
    /\ entry = "sendWithRetry"
    /\ retryConfig = DEFAULT_RETRY_CONFIG
    /\ requestParams = DEFAULT_REQUEST_PARAMS
    /\ attemptsSoFar = 0
    /\ pc = "idle"
    /\ response = None
    /\ delay = 0
    /\ returned = None
    /\ thrown = None
    /\ requestsIssued = 0
    /\ consulted = None
    /\ raised = None
    /\ current = "none"
    /\ earlier = TRUE
    /\ resolverOptions = NoOptions
    /\ resolverArgs \in
          { Some([response |-> r, attemptNumber |-> 1,
                  retryableResponseCodes |-> DEFAULT_RETRYABLE_STATUS_CODES]) :
              r \in ResolverResponses }
    /\ clock \in NextMinuteClocks
    /\ decision = None
    /\ aborted = FALSE
    /\ calls = [i \in CallIds |-> NewCall]

\* createDelayToNextMinuteResolver(config)(response, attemptNumber, statusCodesToRetry)
CallDelayToNextMinuteResolver ==
    /\ decision = None
    /\ IsSome(resolverArgs)
    /\ \E config \in NextMinuteConfigs :
          decision' = Some([by |-> "createDelayToNextMinuteResolver",
                            config |-> config,
                            value |-> createDelayToNextMinuteResolver(
                                config, Get(resolverArgs).response, clock)])
    /\ UNCHANGED <<engineVars, aborted, calls, resolverOptions, resolverArgs, clock>>

NextMinuteNext == CallDelayToNextMinuteResolver

SpecNextMinute == NextMinuteInit /\ [][NextMinuteNext]_vars

-----------------------------------------------------------------------------
(* Properties *)

Terminal == pc \in {"returned", "thrown"}

\* The attempt's outcome is one the loop continues after while budget remains:
\* a retryable status the resolver did not abort on, or a raised error that is
\* not a timeout gated by retryOnTimeout = false.
RetryableOutcome ==
    \/ current = "retryable" /\ raised = None
    \/ /\ IsSome(raised)
       /\ ~(retryConfig.retryOnTimeout = FALSE
            /\ Get(raised).name \in {"BodyTimeoutError", "HeadersTimeoutError"})

\* The returned value is the Failure arm built from the current response.
ReturnedFailureOfResponse ==
    /\ pc = "returned"
    /\ Get(returned).result = None
    /\ IsSome(Get(returned).error)
    /\ "statusCode" \in DOMAIN Get(Get(returned).error)
    /\ Get(Get(returned).error).statusCode = Get(response).statusCode
    /\ Get(Get(returned).error).headers = Get(response).headers
    /\ Get(Get(returned).error).body[2] = requestsIssued

\* The returned value is the Success arm built from the current response.
ReturnedSuccessOfResponse ==
    /\ pc = "returned"
    /\ Get(returned).error = None
    /\ IsSome(Get(returned).result)
    /\ Get(Get(returned).result).statusCode = Get(response).statusCode
    /\ Get(Get(returned).result).headers = Get(response).headers
    /\ Get(Get(returned).result).body[2] = requestsIssued

\* C1: the transport is never invoked more than maxAttempts times, and a call
\* that ended after fewer than maxAttempts requests ended on an attempt whose
\* outcome was not retryable (so N-1 retryable outcomes give exactly N requests).
C1_BudgetInvariant ==
    /\ requestsIssued <= retryConfig.maxAttempts
    /\ (Terminal /\ requestsIssued < retryConfig.maxAttempts) => ~RetryableOutcome

C1_Witness ==
    /\ Terminal
    /\ retryConfig.maxAttempts = 3
    /\ requestsIssued = 3
    /\ RetryableOutcome

\* C2: a returned value has exactly one of result and error populated.
C2_ExclusiveResult ==
    pc = "returned" =>
        /\ IsSome(returned)
        /\ IsSome(Get(returned).result) # IsSome(Get(returned).error)

C2_Witness ==
    /\ pc = "returned"
    /\ IsSome(Get(returned).error)
    /\ "statusCode" \notin DOMAIN Get(Get(returned).error)
    /\ Get(returned).result = None

ResolverReturned(v) ==
    /\ IsSome(consulted)
    /\ ~Get(consulted).threw
    /\ Get(consulted).value = v

C8_UndefinedMeansNoDelay ==
    [][ResolverReturned(None) =>
          /\ delay = 0
          /\ \/ pc = "dump" /\ pc' = "loop" /\ Get(response').bodyReads = 1
             \/ pc = "loop" /\ pc' = "request" /\ requestsIssued' = requestsIssued + 1]_vars

C8_Witness ==
    /\ ResolverReturned(None)
    /\ pc = "loop"
    /\ Get(response).bodyReads = 1
    /\ attemptsSoFar < retryConfig.maxAttempts

\* C9: the engine never sleeps on an unconsumed body, and whenever the loop is
\* re-entered after a response that response's body has been consumed or dumped.
C9_DumpBeforeRetry ==
    /\ pc = "sleep" => Get(response).bodyReads >= 1
    /\ (pc = "loop" /\ IsSome(response)) => Get(response).bodyReads >= 1

\* C10: in sendWithRetry, by the time the next attempt is due or the call has
\* ended, the body of the response received was consumed exactly once.
C10_BodyConsumedOnce ==
    (entry = "sendWithRetry" /\ IsSome(response) /\ pc \in {"loop", "returned", "thrown"}) =>
        Get(response).bodyReads = 1

\* The current attempt raised an error of one of the given names.
RaisedNamed(names) == IsSome(raised) /\ Get(raised).name \in names

\* The call ended by surfacing the caught error of the given name as an internal
\* error: returned in the error arm and tagged, or thrown wrapped.
SurfacedInternalError(name) ==
    \/ /\ pc = "returned"
       /\ thrown = None
       /\ Get(returned).result = None
       /\ Get(Get(returned).error).name = name
       /\ Get(Get(returned).error).isInternalRequestError
    \/ /\ pc = "thrown"
       /\ returned = None
       /\ Get(thrown).name = "InternalRequestError"
       /\ Get(Get(thrown).error).name = name

\* C11: a transport failure that is not timeout-classified, on an attempt before
\* the last, does not end the call whatever retryOnTimeout is: nothing is returned
\* or thrown and the next step is the next request.
C11_NonTimeoutFailureRetried ==
    (/\ IsSome(raised)
     /\ Get(raised).site = "request"
     /\ Get(raised).name \notin {"HeadersTimeoutError", "BodyTimeoutError"}
     /\ attemptsSoFar < retryConfig.maxAttempts) =>
        (pc = "loop" /\ returned = None /\ thrown = None /\ ENABLED IssueRequest)

C11_Witness ==
    /\ pc = "loop"
    /\ RaisedNamed({"SocketError"})
    /\ retryConfig.retryOnTimeout = FALSE
    /\ attemptsSoFar = 1
    /\ retryConfig.maxAttempts = 2

\* C12: a timeout-classified failure (HeadersTimeoutError, BodyTimeoutError) on an
\* attempt before the last ends the call exactly when retryOnTimeout is false: then
\* the internal error is surfaced after that attempt with no further request;
\* with retryOnTimeout true the loop is re-entered.
C12_TimeoutTerminalIffDisabled ==
    (/\ RaisedNamed({"HeadersTimeoutError", "BodyTimeoutError"})
     /\ attemptsSoFar < retryConfig.maxAttempts) =>
        IF retryConfig.retryOnTimeout = FALSE
        THEN /\ SurfacedInternalError(Get(raised).name)
             /\ requestsIssued = attemptsSoFar
        ELSE pc = "loop" /\ returned = None /\ thrown = None

C12_Witness ==
    /\ Terminal
    /\ RaisedNamed({"HeadersTimeoutError"})
    /\ retryConfig.retryOnTimeout = FALSE
    /\ retryConfig.maxAttempts = 3
    /\ requestsIssued = 1

\* C13: a terminal transport failure is thrown, as an UndiciRetryRequestError that
\* carries the original error, its message and the requestLabel, exactly when
\* throwOnInternalError is true; otherwise it is returned in the error arm, tagged
\* isInternalRequestError with the requestLabel, and nothing is thrown.
C13_ThrowIffRequested ==
    (Terminal /\ IsSome(raised) /\ Get(raised).site = "request") =>
        IF requestParams.throwOnInternalError = Some(TRUE)
        THEN /\ pc = "thrown"
             /\ returned = None
             /\ Get(thrown).name = "InternalRequestError"
             /\ Get(thrown).isInternalRequestError
             /\ Get(thrown).error = Some(MkError(Get(raised).name))
             /\ Get(thrown).message = MessageOf(Get(raised).name)
             /\ Get(thrown).requestLabel = requestParams.requestLabel
        ELSE /\ pc = "returned"
             /\ thrown = None
             /\ Get(returned).result = None
             /\ Get(Get(returned).error).name = Get(raised).name
             /\ Get(Get(returned).error).isInternalRequestError
             /\ Get(Get(returned).error).requestLabel = requestParams.requestLabel

C13_Witness ==
    /\ pc = "thrown"
    /\ RaisedNamed({"SocketError"})
    /\ Get(raised).site = "request"
    /\ requestParams.requestLabel = Some("label")
    /\ Get(thrown).requestLabel = Some("label")

CarriesLabel(e) ==
    IF "statusCode" \in DOMAIN e THEN e.requestLabel = requestParams.requestLabel
    ELSE IF e.isUnprocessableResponseError
    THEN Get(e.details).requestLabel = Nullish(requestParams.requestLabel, "N/A")
    ELSE e.requestLabel = requestParams.requestLabel

\* C15: every error outcome of a call carries the call's requestLabel: the Failure
\* value of the non-retryable, budget-exhausted and resolver-abort paths, and the
\* internal error whether returned or thrown.
C15_ErrorsCarryLabel ==
    /\ (pc = "returned" /\ IsSome(Get(returned).error)) => CarriesLabel(Get(Get(returned).error))
    /\ pc = "thrown" => CarriesLabel(Get(thrown))

C15_Witness ==
    /\ pc = "returned"
    /\ ResolverReturned(Some(-1))
    /\ requestParams.requestLabel = Some("label")
    /\ IsSome(Get(returned).error)
    /\ Get(Get(returned).error).requestLabel = Some("label")

\* The error the call surfaced, thrown or returned.
SurfacedError == IF pc = "thrown" THEN Get(thrown) ELSE Get(Get(returned).error)

MandatedDelay(h) ==
    CASE h = <<"0">> -> 0
      [] h = <<"0", "0", "7">> -> 7000
      [] h = <<"3">> -> 3000
      [] h = <<"5">> -> 5000
      [] h = <<"3", "0">> -> 30000
      [] h = <<"6", "0">> -> 60000
      [] h = <<"1", "2", "0">> -> 120000

\* The Retry-After headers that give whole seconds.
SecondsHeaders == {<<"0">>, <<"0", "0", "7">>, <<"3">>, <<"5">>, <<"3", "0">>, <<"6", "0">>, <<"1", "2", "0">>}

\* The options of the direct call, with the documented defaults filled in.
CallBaseDelay == Nullish(resolverOptions.baseDelay, 100)
CallMaxDelay == Nullish(resolverOptions.maxDelay, 60000)
CallMaxJitter == Nullish(resolverOptions.maxJitter, 100)
CallExponential == resolverOptions.exponentialBackoff # Some(FALSE)
CallRespectsRetryAfter == resolverOptions.respectRetryAfter # Some(FALSE)

\* The direct call has returned, for a response whose status is in the retryable
\* codes it was given.
DecidedRetryable ==
    /\ IsSome(decision)
    /\ Get(decision).by \in {"createDefaultRetryResolver", "resolveRetryDecision"}
    /\ Get(resolverArgs).response.statusCode \in Get(resolverArgs).retryableResponseCodes

\* The direct call returned the delay d: the closure as a number, the class as a
\* decision to retry after d.
DecidedDelay(d) ==
    IF Get(decision).by = "createDefaultRetryResolver"
    THEN Get(decision).value = d
    ELSE Get(decision).value = [shouldRetry |-> TRUE, delay |-> Some(d)]

\* The delay the direct call returned.
DecidedValue ==
    IF Get(decision).by = "createDefaultRetryResolver"
    THEN Get(decision).value
    ELSE Get(Get(decision).value.delay)

\* C17: with respectRetryAfter enabled, a retryable 429 or 503 response whose
\* Retry-After gives s seconds with s*1000 <= maxDelay resolves to exactly s*1000
\* ms, for every attempt number, baseDelay, jitter and backoff mode.
C17_RetryAfterPrecedence ==
    LET r == Get(resolverArgs).response
    IN  (/\ DecidedRetryable
         /\ CallRespectsRetryAfter
         /\ r.statusCode \in {429, 503}
         /\ IsSome(r.headers.retryAfter)
         /\ Get(r.headers.retryAfter) \in SecondsHeaders
         /\ MandatedDelay(Get(r.headers.retryAfter)) <= CallMaxDelay) =>
            DecidedDelay(MandatedDelay(Get(r.headers.retryAfter)))

C17_Witness ==
    /\ IsSome(decision)
    /\ Get(decision).by = "createDefaultRetryResolver"
    /\ Get(decision).value = 30000
    /\ Get(resolverArgs).response.statusCode = 503
    /\ Get(resolverArgs).response.headers.retryAfter = Some(<<"3", "0">>)
    /\ Get(resolverArgs).attemptNumber = MaxAttemptNumber
    /\ resolverOptions.baseDelay = Some(1000)
    /\ resolverOptions.exponentialBackoff = Some(FALSE)
    /\ resolverOptions.maxJitter = None

\* The attempt received a 429 whose Retry-After gives whole seconds and a resolver
\* made by createDefaultRetryResolver was consulted on it.
DefaultConsultedOnSeconds ==
    /\ IsSome(response)
    /\ IsSome(consulted)
    /\ retryConfig.delayResolver # Some("custom")
    /\ Get(response).statusCode = 429
    /\ IsSome(Get(response).headers.retryAfter)
    /\ Get(Get(response).headers.retryAfter) \in SecondsHeaders

\* The cap of the resolver the call uses: the default, or the configured 5000.
EngineMaxDelay == IF retryConfig.delayResolver = None THEN 60000 ELSE 5000

DocumentedBackoff(n) ==
    IF ~CallExponential THEN CallBaseDelay * n
    ELSE IF n >= 1 THEN CallBaseDelay * 2^(n - 1)
    ELSE CallBaseDelay \div 2

\* The direct call computed a backoff: the status is retryable and the response
\* has no Retry-After header.
DecidedBackoff ==
    /\ DecidedRetryable
    /\ Get(resolverArgs).response.headers.retryAfter = None

\* C19: with maxJitter = 0 and below the cap, the delay of attempt n is
\* baseDelay*2^(n-1) in exponential mode and baseDelay*n in linear mode: 100, 200,
\* 400, 800, 1600 and 100, 200, 300, 400 for baseDelay 100.
C19_BackoffSequence ==
    LET n == Get(resolverArgs).attemptNumber
    IN  (/\ DecidedBackoff
         /\ n >= 1
         /\ CallMaxJitter = 0
         /\ DocumentedBackoff(n) <= CallMaxDelay) =>
            /\ DecidedDelay(DocumentedBackoff(n))
            /\ (CallBaseDelay = 100 /\ CallExponential /\ n <= 5) =>
                  DecidedDelay(<<100, 200, 400, 800, 1600>>[n])
            /\ (CallBaseDelay = 100 /\ ~CallExponential /\ n <= 4) =>
                  DecidedDelay(<<100, 200, 300, 400>>[n])

C19_Witness ==
    /\ IsSome(decision)
    /\ Get(decision).by = "resolveRetryDecision"
    /\ Get(decision).value = [shouldRetry |-> TRUE, delay |-> Some(1600)]
    /\ resolverOptions.maxJitter = Some(0)
    /\ resolverOptions.baseDelay = None
    /\ Get(resolverArgs).attemptNumber = 5

\* C20: for every attempt number and jitter draw the backoff delay lies in
\* [0, maxDelay] and is the smaller of backoff plus jitter and maxDelay, the cap
\* being applied after the jitter: 1000, 2000, 3000, 3000 for baseDelay 1000,
\* maxDelay 3000, exponential, where no jitter is added.
C20_CapAfterJitter ==
    LET n == Get(resolverArgs).attemptNumber
        jittered == DocumentedBackoff(n) + Get(decision).jitter
    IN  DecidedBackoff =>
            /\ Get(decision).jitter >= 0
            /\ Get(decision).jitter < CallMaxJitter \/ CallMaxJitter = 0
            /\ DecidedValue >= 0
            /\ DecidedValue <= CallMaxDelay
            /\ DecidedDelay(IF jittered > CallMaxDelay THEN CallMaxDelay ELSE jittered)
            /\ (/\ CallBaseDelay = 1000
                /\ CallMaxDelay = 3000
                /\ CallMaxJitter = 0
                /\ CallExponential
                /\ n >= 1
                /\ n <= 4) => DecidedDelay(<<1000, 2000, 3000, 3000>>[n])

C20_Witness ==
    /\ IsSome(decision)
    /\ Get(decision).by = "createDefaultRetryResolver"
    /\ Get(decision).jitter = 99
    /\ Get(decision).value = 60000
    /\ resolverOptions.baseDelay = Some(59950)
    /\ resolverOptions.maxDelay = None
    /\ Get(resolverArgs).attemptNumber = 1

\* C21: parseRetryAfterHeader on an all-digits string returns the success arm with
\* parseInt(d) * 1000 milliseconds ('120' gives 120000), whatever the clock reads,
\* and never a negative delay.
C21_DeltaSeconds ==
    LET h == Get(resolverArgs).response.headers.retryAfter
    IN  (/\ IsSome(decision)
         /\ Get(decision).by = "parseRetryAfterHeader"
         /\ Get(h) \in SecondsHeaders) =>
            /\ Get(decision).value = [error |-> None, result |-> Some(MandatedDelay(Get(h)))]
            /\ Get(Get(decision).value.result) >= 0

C21_Witness ==
    /\ IsSome(decision)
    /\ Get(decision).by = "parseRetryAfterHeader"
    /\ Get(resolverArgs).response.headers.retryAfter = Some(<<"1", "2", "0">>)
    /\ clock = 45000
    /\ Get(decision).value.result = Some(120000)

\* The other entry point.
Twin(e) == IF e = "sendWithRetry" THEN "sendWithRetryReturnStream" ELSE "sendWithRetry"

\* Which arm a call ended with, if it ended.
Arm(ret, thr) ==
    IF IsSome(thr) THEN "thrown"
    ELSE IF ret = None THEN "none"
    ELSE IF IsSome(Get(ret).result) THEN "result" ELSE "error"

\* Handling the success response continues or ends the call as the other entry
\* point's handler can: same requests, consultation, delay and arm; only the
\* body of the response may differ.
SameArmAsTwin ==
    \E w \in {<<pc', attemptsSoFar', requestsIssued', consulted', delay',
                 Arm(returned', thrown')>>} :
        ENABLED (/\ HandleSuccessBodyOf(Twin(entry))
                 /\ w = <<pc', attemptsSoFar', requestsIssued', consulted', delay',
                          Arm(returned', thrown')>>)

\* What the two entry points do with the body of a response.
BodiesAsDocumented ==
    /\ (pc = "handleSuccessBody" /\ entry = "sendWithRetryReturnStream") =>
            /\ response' = response
            /\ Get(response).bodyReads = 0
            /\ Get(Get(returned').result).body = <<"stream", Get(response).body.id>>
    /\ (pc = "handleSuccessBody" /\ entry = "sendWithRetry" /\ raised' = None) =>
            /\ Get(response').bodyReads = 1
            /\ Get(Get(returned').result).body[1] # "stream"
    /\ (pc \in {"resolveBody", "abort"} /\ raised' = None) =>
            /\ Get(response').bodyReads = 1
            /\ Get(Get(returned').error).body[1] # "stream"

C24_ConsultedOnlyWhenRetryable ==
    IsSome(consulted) =>
        /\ IsSome(response)
        /\ Get(response).statusCode >= 400
        /\ Get(response).statusCode \in
              (IF IsSome(retryConfig.statusCodesToRetry)
               THEN Get(retryConfig.statusCodesToRetry)
               ELSE {408, 425, 429, 500, 502, 503, 504})
        /\ Get(consulted).attemptNumber = attemptsSoFar
        /\ attemptsSoFar < retryConfig.maxAttempts

C24_Witness ==
    /\ IsSome(consulted)
    /\ Get(consulted).attemptNumber = 2
    /\ retryConfig.maxAttempts = 3
    /\ retryConfig.statusCodesToRetry = Some({400, 429})
    /\ Get(response).statusCode = 400

\* C25: after a retryable transport failure the next attempt is issued
\* immediately: between the failed attempt and the next transport request the
\* delay resolver is not consulted and no sleep occurs, and this repeats until
\* the attempt budget is exhausted.
C25_FailureRetriedImmediately ==
    [][/\ (pc = "request" /\ response' = None /\ IsSome(raised')) =>
            /\ Get(raised').site = "request"
            /\ consulted' = None
            /\ delay' = 0
            /\ IF \/ attemptsSoFar >= retryConfig.maxAttempts
                  \/ /\ retryConfig.retryOnTimeout = FALSE
                     /\ Get(raised').name \in {"BodyTimeoutError", "HeadersTimeoutError"}
               THEN pc' \in {"returned", "thrown"}
               ELSE pc' = "loop"
       /\ pc = "loop" =>
            /\ pc' = "request"
            /\ requestsIssued' = requestsIssued + 1
            /\ requestsIssued' <= retryConfig.maxAttempts]_vars

C25_Witness ==
    /\ pc = "loop"
    /\ raised = Some(Raise("request", "SocketError"))
    /\ requestsIssued = 2
    /\ retryConfig.maxAttempts = 3
    /\ consulted = None
    /\ delay = 0

\* C26: within one call attempts are strictly sequential: attempt N+1 is issued
\* only after attempt N's request has completed and been classified and the
\* computed delay has fully elapsed; a request is never issued while another
\* one of the same call is in flight.
C26_StrictlySequential ==
    [][/\ requestsIssued = attemptsSoFar
       /\ requestsIssued' # requestsIssued =>
            /\ pc = "loop" /\ pc' = "request"
            /\ requestsIssued' = requestsIssued + 1
            /\ requestsIssued > 0 =>
                  /\ current # "none"
                  /\ IsSome(response) \/ IsSome(raised)
       /\ pc = "request" =>
            /\ response = None /\ raised = None /\ current = "none"
            /\ requestsIssued' = requestsIssued
       /\ (pc # "loop" /\ pc' = "loop" /\ delay' > 0) => pc = "sleep"
       /\ pc = "sleep" =>
            /\ delay > 0
            /\ pc' = "loop"
            /\ requestsIssued' = requestsIssued]_vars

C26_Witness ==
    /\ pc = "loop"
    /\ delay = 100
    /\ requestsIssued = 2
    /\ retryConfig.maxAttempts = 3
    /\ current = "retryable"
    /\ Get(response).bodyReads = 1

\* C27: every call with finite maxAttempts >= 1 terminates, provided each transport
\* request, body operation and sleep completes: it returns or throws after at
\* most maxAttempts attempts.
C27_Terminates ==
    <>(Terminal /\ requestsIssued >= 1 /\ requestsIssued <= retryConfig.maxAttempts)

C27_Witness ==
    /\ Terminal
    /\ requestsIssued = retryConfig.maxAttempts
    /\ retryConfig.maxAttempts = MaxAttemptsBound
    /\ IsSome(raised)

\* C28: the inter-attempt sleep can be interrupted by an external cancellation
\* signal: when cancellation is signalled during the sleep, the loop is aborted,
\* a cancellation-specific failure is surfaced, and no further attempt is issued.
C28_SleepCancellable ==
    [][(pc = "sleep" /\ aborted) =>
          /\ pc' \in {"returned", "thrown"}
          /\ requestsIssued' = requestsIssued
          /\ \/ IsSome(thrown') /\ Get(thrown').name = ABORT_ERROR
             \/ /\ IsSome(returned')
                /\ IsSome(Get(returned').error)
                /\ Get(Get(returned').error).name = ABORT_ERROR]_vars

\* The backoff of the direct call: the documented base for the attempt number
\* plus the jitter drawn, capped at maxDelay.
ExpectedBackoff ==
    LET jittered == DocumentedBackoff(Get(resolverArgs).attemptNumber) + Get(decision).jitter
    IN  IF jittered > CallMaxDelay THEN CallMaxDelay ELSE jittered

\* The Retry-After header h does not parse at clock reading now: it is empty, in
\* an unknown format, or a date in the past.
FailsToParse(h, now) ==
    \/ h = <<>>
    \/ h = <<"s", "o", "o", "n">>
    \/ h = <<"GMT:", "3", "0">> /\ now > 30000
    \/ h = <<"GMT:", "4", "0">> /\ now > 40000

\* C29: with the default resolver, a Retry-After header that fails to parse
\* (unknown format, date in the past, empty) on a retryable 429 or 503 never
\* aborts: the resolver falls through to the computed backoff delay.
C29_UnparsedFallsBack ==
    LET r == Get(resolverArgs).response
    IN  (/\ DecidedRetryable
         /\ r.statusCode \in {429, 503}
         /\ IsSome(r.headers.retryAfter)
         /\ FailsToParse(Get(r.headers.retryAfter), clock)) =>
            /\ DecidedValue # -1
            /\ DecidedValue >= 0
            /\ DecidedDelay(ExpectedBackoff)

C29_Witness ==
    /\ IsSome(decision)
    /\ Get(decision).by = "createDefaultRetryResolver"
    /\ resolverOptions.respectRetryAfter = None
    /\ Get(resolverArgs).response.statusCode = 503
    /\ Get(resolverArgs).response.headers.retryAfter = Some(<<"GMT:", "4", "0">>)
    /\ clock = 45000
    /\ Get(resolverArgs).attemptNumber = 2
    /\ resolverOptions.baseDelay = Some(1000)
    /\ resolverOptions.exponentialBackoff = None
    /\ Get(decision).value = 2000

\* C30: the default resolver takes the Retry-After header into account only when
\* respectRetryAfter is enabled and the status is 429 or 503; for any other
\* retryable status, or with respectRetryAfter false, the header is ignored and
\* the backoff delay is returned, even when the header exceeds maxDelay.
C30_HeaderIgnoredOtherwise ==
    LET r == Get(resolverArgs).response
    IN  (/\ DecidedRetryable
         /\ IsSome(r.headers.retryAfter)
         /\ r.statusCode \notin {429, 503} \/ ~CallRespectsRetryAfter) =>
            /\ DecidedValue # -1
            /\ DecidedDelay(ExpectedBackoff)

C30_Witness ==
    /\ IsSome(decision)
    /\ Get(decision).by = "createDefaultRetryResolver"
    /\ resolverOptions.respectRetryAfter = None
    /\ Get(resolverArgs).response.statusCode = 500
    /\ Get(resolverArgs).response.headers.retryAfter = Some(<<"1", "2", "0">>)
    /\ resolverOptions.maxDelay = Some(5000)
    /\ resolverOptions.baseDelay = Some(1000)
    /\ Get(resolverArgs).attemptNumber = 1
    /\ Get(decision).jitter = 0
    /\ Get(decision).value = 1000

\* C31: the default resolver returns abort (-1) for every response whose status
\* is not in the status codes passed to it, whatever the headers and the attempt
\* number; resolveRetryDecision returns shouldRetry = false for the same inputs.
C31_NonRetryableAborts ==
    (/\ IsSome(decision)
     /\ Get(decision).by \in {"createDefaultRetryResolver", "resolveRetryDecision"}
     /\ Get(resolverArgs).response.statusCode \notin Get(resolverArgs).retryableResponseCodes) =>
        IF Get(decision).by = "createDefaultRetryResolver"
        THEN Get(decision).value = -1
        ELSE Get(decision).value.shouldRetry = FALSE

C31_Witness ==
    /\ IsSome(decision)
    /\ Get(decision).by = "resolveRetryDecision"
    /\ Get(resolverArgs).response.statusCode = 503
    /\ Get(resolverArgs).retryableResponseCodes = {429}
    /\ Get(resolverArgs).response.headers.retryAfter = Some(<<"5">>)
    /\ Get(resolverArgs).attemptNumber = 3
    /\ Get(decision).value.shouldRetry = FALSE

\* What the other form of the default resolver returns for the arguments, the
\* clock reading and the jitter of the direct call.
ClosureResult ==
    createDefaultRetryResolver(resolverOptions, Get(resolverArgs).response,
                               Get(resolverArgs).attemptNumber,
                               Get(resolverArgs).retryableResponseCodes,
                               clock, Get(decision).jitter)

ClassResult ==
    resolveRetryDecision(DefaultRetryResolverOptions(resolverOptions),
                         Get(resolverArgs).response, Get(resolverArgs).attemptNumber,
                         Get(resolverArgs).retryableResponseCodes,
                         clock, Get(decision).jitter)

\* The number n and the RetryDecision d say the same.
Agree(n, d) ==
    /\ n = -1 <=> d.shouldRetry = FALSE
    /\ d.shouldRetry => d.delay = Some(n)

InstantOf(h) ==
    CASE h = <<"GMT:", "3", "0">> -> 30000
      [] h = <<"GMT:", "4", "0">> -> 40000

DateHeaders == {<<"GMT:", "3", "0">>, <<"GMT:", "4", "0">>}

\* C33: parseRetryAfterHeader on a (non-empty) string that is not all digits: a
\* date gives parsed_instant - now when that is >= 0 and fails as a date in the
\* past when it is < 0; a string that is neither fails as an unknown format; the
\* delay is never negative and exactly one of result and error is set.
C33_DatesAndUnknownFormats ==
    LET h == Get(Get(resolverArgs).response.headers.retryAfter)
        v == Get(decision).value
    IN  (/\ IsSome(decision)
         /\ Get(decision).by = "parseRetryAfterHeader"
         /\ Len(h) > 0
         /\ h \notin SecondsHeaders) =>
            /\ IsSome(v.result) # IsSome(v.error)
            /\ IsSome(v.result) => Get(v.result) >= 0
            /\ IF h \in DateHeaders
               THEN IF InstantOf(h) - clock >= 0
                    THEN v.result = Some(InstantOf(h) - clock)
                    ELSE v.error = Some("Retry-After date is in the past")
               ELSE v.error = Some("Unknown Retry-After format")

C33_Witness ==
    /\ IsSome(decision)
    /\ Get(decision).by = "parseRetryAfterHeader"
    /\ Get(resolverArgs).response.headers.retryAfter = Some(<<"GMT:", "4", "0">>)
    /\ clock = 35500
    /\ Get(decision).value = [error |-> None, result |-> Some(4500)]

\* How a response is classified from its status and the retryable codes alone.
Classification(statusCode, codes) ==
    IF statusCode < 400 THEN "success"
    ELSE IF statusCode \in codes THEN "eligible"
    ELSE "notEligible"

\* C34: for fixed statusCode and statusCodesToRetry, whether a response is
\* retry-eligible is a function of the two alone: on every attempt, whatever the
\* earlier responses, the jitter drawn and the clock, the same status takes the
\* same branch (success, retry while budget remains, or terminal).
C34_ClassificationIsAFunction ==
    [][(pc = "request" /\ IsSome(response')) =>
        LET class == Classification(
                Get(response').statusCode,
                IF IsSome(retryConfig.statusCodesToRetry)
                THEN Get(retryConfig.statusCodesToRetry)
                ELSE {408, 425, 429, 500, 502, 503, 504})
        IN  /\ class = "success" <=> pc' = "handleSuccessBody"
            /\ class = "notEligible" =>
                  /\ pc' = "resolveBody"
                  /\ consulted' = None
                  /\ current' = "nonRetryable"
            /\ class = "eligible" =>
                  /\ current' \in {"retryable", "aborted"}
                  /\ IsSome(consulted') <=> attemptsSoFar < retryConfig.maxAttempts
                  /\ consulted' = None => pc' = "resolveBody"]_vars

C34_Witness ==
    /\ requestsIssued = 3
    /\ earlier
    /\ pc = "resolveBody"
    /\ consulted = None
    /\ current = "nonRetryable"
    /\ Get(response).statusCode = 500
    /\ retryConfig.statusCodesToRetry = Some({400, 429})

\* C35: the attemptNumber passed to the delay resolver equals the number of
\* transport requests issued so far in the call (1-indexed), counting attempts
\* that ended in a transport failure; it is strictly increasing across
\* consultations within one call and always < maxAttempts.
C35_AttemptNumberIsRequestCount ==
    [][/\ (IsSome(consulted') /\ consulted' # consulted) =>
            /\ pc = "request" /\ consulted = None
            /\ Get(consulted').attemptNumber = requestsIssued
            /\ Get(consulted').attemptNumber >= 1
            /\ Get(consulted').attemptNumber < retryConfig.maxAttempts
            /\ requestsIssued' = requestsIssued
            /\ (/\ retryConfig.delayResolver # Some("custom")
                /\ Get(response').headers.retryAfter = None) =>
                  /\ delay' >= 100 * 2^(requestsIssued - 1)
                  /\ delay' < 100 * 2^(requestsIssued - 1) + 100
       /\ requestsIssued' # requestsIssued =>
            /\ requestsIssued' = requestsIssued + 1
            /\ consulted' = None
       /\ IsSome(consulted) => Get(consulted).attemptNumber = requestsIssued]_vars

C35_Witness ==
    /\ IsSome(consulted)
    /\ Get(consulted).attemptNumber = 2
    /\ requestsIssued = 2
    /\ ~earlier
    /\ retryConfig.maxAttempts = 3
    /\ retryConfig.delayResolver = None
    /\ delay = 200

C37_OnlyMinusOneAborts ==
    [][/\ (pc = "request" /\ IsSome(consulted') /\ ~Get(consulted').threw) =>
            /\ pc' = "abort" <=> Get(consulted').value = Some(-1)
            /\ pc' # "abort" => pc' = "dump"
       /\ pc = "abort" => Get(consulted).value = Some(-1)
       /\ pc = "dump" =>
            /\ Get(consulted).value # Some(-1)
            /\ pc' = "sleep" <=>
                  (IsSome(Get(consulted).value) /\ Get(Get(consulted).value) > 0)
            /\ pc' # "sleep" => pc' = "loop"
       /\ pc = "sleep" =>
            /\ Get(Get(consulted).value) > 0
            /\ delay = Get(Get(consulted).value)
            /\ pc' = "loop"
       /\ (pc = "loop" /\ IsSome(consulted)) =>
            /\ pc' = "request"
            /\ requestsIssued' = requestsIssued + 1]_vars

C37_Witness ==
    /\ ResolverReturned(Some(-5))
    /\ pc = "loop"
    /\ delay = -5
    /\ requestsIssued = 1
    /\ Get(response).bodyReads = 1

\* What call i of the calls cs has to show for itself: it counts its own requests
\* and stays within its own budget, the response it holds and the value it
\* returned are those of its own latest request, and it ended before its budget
\* was spent only on an outcome of its own that is not retried.
CallStandsAlone(cs, i) ==
    LET c == cs[i]
        own == <<"text", <<i, c.requestsIssued>>>>
        value == Get(c.returned)
    IN  /\ c.attemptsSoFar = c.requestsIssued
        /\ c.requestsIssued <= retryConfig.maxAttempts
        /\ IsSome(c.response) => Get(c.response).body.id = <<i, c.requestsIssued>>
        /\ c.pc = "returned" =>
             /\ IsSome(c.returned)
             /\ IsSome(value.result) =>
                  /\ Get(value.result).body = own
                  /\ Get(value.result).statusCode = Get(c.response).statusCode
             /\ (IsSome(value.error) /\ isRequestResult(Get(value.error))) =>
                  /\ Get(value.error).body = own
                  /\ Get(value.error).statusCode = Get(c.response).statusCode
                  /\ c.requestsIssued < retryConfig.maxAttempts =>
                       \/ Get(value.error).statusCode \notin EffectiveStatusCodes(retryConfig)
                       \/ c.delay = ABORT
             /\ (IsSome(value.error) /\ ~isRequestResult(Get(value.error))) =>
                  /\ c.response = None
                  /\ c.requestsIssued < retryConfig.maxAttempts =>
                       /\ retryConfig.retryOnTimeout = FALSE
                       /\ Get(value.error).name \in TIMEOUT_ERRORS

C39_AttemptZeroIsHalved ==
    LET a == Get(resolverArgs)
        first == IF Get(decision).by = "createDefaultRetryResolver"
                 THEN createDefaultRetryResolver(resolverOptions, a.response, 1,
                                                 a.retryableResponseCodes, clock, 0)
                 ELSE Get(resolveRetryDecision(
                              DefaultRetryResolverOptions(resolverOptions), a.response, 1,
                              a.retryableResponseCodes, clock, 0).delay)
    IN  (/\ DecidedBackoff
         /\ a.attemptNumber = 0
         /\ CallExponential
         /\ CallMaxJitter = 0) =>
            /\ Get(decision).by = "resolveRetryDecision" =>
                  Get(decision).value.shouldRetry
            /\ DecidedValue # ABORT
            /\ DecidedDelay(Min(DocumentedBackoff(1) \div 2, CallMaxDelay))
            /\ DocumentedBackoff(1) <= CallMaxDelay => 2 * DecidedValue = first
            /\ CallBaseDelay = 100 => DecidedDelay(50)

\* resolveRetryDecision(response, 0, codes) of a resolver with baseDelay 100 and
\* maxJitter 0 in exponential mode, for a 500: retry after 50 ms.
C39_Witness ==
    /\ IsSome(decision)
    /\ Get(decision).by = "resolveRetryDecision"
    /\ Get(decision).value = [shouldRetry |-> TRUE, delay |-> Some(50)]
    /\ Get(resolverArgs).attemptNumber = 0
    /\ Get(resolverArgs).response.statusCode = 500
    /\ resolverOptions.baseDelay = None
    /\ resolverOptions.maxJitter = Some(0)
    /\ resolverOptions.exponentialBackoff # Some(FALSE)

\* C40: the resolver of createDelayToNextMinuteResolver({offsetInMsecs: o}) returns
\* for a 429 at time now 60000 - (now mod 60000) + o, which lies in
\* [o + 1, o + 60000] and is not -1 when o >= 0 (56668 and 56768 at 3.432 s into
\* a minute for o = 100 and 200); for every other status it returns undefined.
C40_DelayToNextMinute ==
    (IsSome(decision) /\ Get(decision).by = "createDelayToNextMinuteResolver") =>
        LET config == Get(decision).config
            o == IF config = None THEN 100 ELSE Get(config).offsetInMsecs
            value == Get(decision).value
            intoMinute == clock % 60000
        IN  IF Get(resolverArgs).response.statusCode = 429
            THEN /\ IsSome(value)
                 /\ Get(value) = 60000 - intoMinute + o
                 /\ Get(value) >= o + 1
                 /\ Get(value) <= o + 60000
                 /\ o >= 0 => Get(value) # ABORT
                 /\ (intoMinute = 3432 /\ o = 100) => Get(value) = 56668
                 /\ (intoMinute = 3432 /\ o = 200) => Get(value) = 56768
            ELSE value = None

\* On a minute boundary the resolver created without a config answers a 429 with
\* a whole minute plus the default offset.
C40_Witness ==
    /\ IsSome(decision)
    /\ Get(decision).by = "createDelayToNextMinuteResolver"
    /\ Get(decision).config = None
    /\ Get(resolverArgs).response.statusCode = 429
    /\ clock = 60000
    /\ Get(decision).value = Some(60100)

====
